---- MODULE Spec2Model ----
(***************************************************************************)
(* Model of tools/build_frontend_data.py: the batch run that enriches      *)
(* every route with a primary region and a pipe-delimited membership list  *)
(* for two region layers (LA and RTP).  Each SQL statement of main() is    *)
(* one action; the tables DuckDB holds are the variables.  The geometry    *)
(* engine (ST_Length, ST_Intersects, ST_Intersection, ST_IsValid) is an    *)
(* oracle whose answers for the run's geometries are part of the input.    *)
(*                                                                         *)
(* SQL values: a nullable value is a set with at most one element, NULL is *)
(* the empty set.  A string is a sequence of one-character strings, so     *)
(* that || and string_agg really build the delimited text.                 *)
(***************************************************************************)
EXTENDS Integers, Sequences, FiniteSets, TLC

\* ------------------------------------------------------------------ bounds
MaxRoutes == 2
\* regions of the two layers together
MaxRegions == 3
\* pairs (route, region) the engine reports as intersecting, both layers
MaxHits == 2
\* regions whose geometry stays invalid after the repair
MaxDefects == 1
\* runs of the build on the same inputs (SpecTwice)
MaxRuns == 2

\* --------------------------------------------------------------- SQL values
NULL == {}
Some(x) == {x}
IsNull(v) == v = {}
Val(v) == CHOOSE x \in v : TRUE

\* text(s): the characters of a string constant
Pipe == <<"|">>

\* SQL a || b: NULL when either side is NULL
Concat(a, b) == IF IsNull(a) \/ IsNull(b) THEN NULL ELSE Some(Val(a) \o Val(b))

\* SQL a >= b on nullable numbers, three-valued
SqlGe(a, b) == IF IsNull(a) \/ IsNull(b) THEN NULL ELSE Some(Val(a) >= Val(b))

\* SQL a <= b on nullable numbers, three-valued
SqlLe(a, b) == IF IsNull(a) \/ IsNull(b) THEN NULL ELSE Some(Val(a) <= Val(b))

\* SQL p AND q, three-valued
SqlAnd(p, q) ==
  IF p = Some(FALSE) \/ q = Some(FALSE) THEN Some(FALSE)
  ELSE IF IsNull(p) \/ IsNull(q) THEN NULL
  ELSE Some(TRUE)

\* SQL p OR q, three-valued
SqlOr(p, q) ==
  IF p = Some(TRUE) \/ q = Some(TRUE) THEN Some(TRUE)
  ELSE IF IsNull(p) \/ IsNull(q) THEN NULL
  ELSE Some(FALSE)

\* WHERE / ON keep a row only when the predicate is TRUE (not FALSE, not NULL)
IsTrue(p) == p = Some(TRUE)

\* SQL NULLIF(a, b)
NULLIF(a, b) == IF ~IsNull(a) /\ a = b THEN NULL ELSE a

\* SQL a / b as the exact quotient <<numerator, denominator>>
SqlDiv(a, b) == IF IsNull(a) \/ IsNull(b) THEN NULL ELSE Some(<<Val(a), Val(b)>>)

\* quotient >= share, the share given in hundredths (min_share = pct / 100);
\* denominators are positive here (NULLIF removed 0, lengths are >= 0)
QuotGe(q, pct) ==
  IF IsNull(q) THEN NULL ELSE Some(Val(q)[1] * 100 >= pct * Val(q)[2])

\* ------------------------------------------------------------ sequences
RECURSIVE Flatten(_)
Flatten(ss) == IF ss = <<>> THEN <<>> ELSE Head(ss) \o Flatten(Tail(ss))

RECURSIVE Distinct(_)
Distinct(s) ==
  IF s = <<>> THEN <<>>
  ELSE LET h == Head(s)
       IN <<h>> \o Distinct(SelectSeq(Tail(s), LAMBDA x : x # h))

Max(S) == CHOOSE m \in S : \A x \in S : x <= m
Min(S) == CHOOSE m \in S : \A x \in S : m <= x

\* ------------------------------------------------------------ aggregates
\* (a variant that takes the first row of the group, whatever its val)
arg_first(rows, arg, val) ==
  IF rows = <<>> THEN NULL ELSE rows[1][arg]

\* arg_max(arg, val) over the rows of one group, in the order the aggregate
\* receives them: rows whose arg or val is NULL are ignored; among the rows
\* with the maximum val the first one received wins (no tie-break is given).
arg_max(rows, arg, val) ==
  LET cand == {i \in 1..Len(rows) : ~IsNull(rows[i][arg]) /\ ~IsNull(rows[i][val])}
  IN IF cand = {} THEN NULL
     ELSE LET m == Max({Val(rows[i][val]) : i \in cand})
              first == Min({i \in cand : Val(rows[i][val]) = m})
          IN rows[first][arg]

\* (a variant that sorts ascending)
KeyLe(a, b) == IsNull(a) \/ (~IsNull(b) /\ Val(a) <= Val(b))

\* a sorts before-or-with b under ORDER BY ... DESC (NULLs last)
KeyGe(a, b) == IsNull(b) \/ (~IsNull(a) /\ Val(a) >= Val(b))

\* (a variant that leaves the rows in the order they arrived in)
OrderAsArrived(rows, key) == rows

\* ORDER BY key DESC; rows with equal keys keep the order they arrived in
RECURSIVE OrderByDesc(_, _)
OrderByDesc(rows, key) ==
  IF rows = <<>> THEN <<>>
  ELSE LET n == Len(rows)
           s == OrderByDesc(SubSeq(rows, 1, n - 1), key)
           r == rows[n]
           p == Cardinality({i \in 1..Len(s) : KeyGe(s[i][key], r[key])})
       IN SubSeq(s, 1, p) \o <<r>> \o SubSeq(s, p + 1, Len(s))

RECURSIVE JoinText(_, _)
JoinText(vals, sep) ==
  IF Len(vals) = 1 THEN Val(vals[1])
  ELSE Val(vals[1]) \o sep \o JoinText(Tail(vals), sep)

\* string_agg(arg, sep ORDER BY key DESC) over the rows of one group:
\* NULL args are skipped; NULL when nothing is left
string_agg(rows, arg, sep, key) ==
  LET sorted == OrderByDesc(rows, key)
      vals == SelectSeq([i \in 1..Len(sorted) |-> sorted[i][arg]],
                        LAMBDA v : ~IsNull(v))
  IN IF vals = <<>> THEN NULL ELSE Some(JoinText(vals, sep))

\* ---------------------------------------------------------------- state
VARIABLES
  args,               \* [min_length_m, min_share]: --min-length-m, --min-share (hundredths)
  route_cols,         \* route_non_geom: the attribute columns of routes_raw
  routes_raw,         \* ST_Read(routes_geojson): rows [attrs, geom]
  la_raw,             \* ST_Read(la_path): rows [code, name, geom]
  rpt_raw,            \* ST_Read(rpt_path): rows [code, name, geom]
  engine,             \* the geometry engine's answers for these geometries
  pc,                 \* the statement of main() that runs next
  routes, routes_len, la, rpt,
  la_intersections, la_primary, la_final, la_membership,
  rpt_intersections, rpt_primary, rpt_final, rpt_membership,
  routes_out,
  log,                \* the warnings log_progress has printed
  run,                \* which run of the build this is
  prev_out,           \* routes_out of the previous run on these inputs
  opts,               \* [resume, skip_tiles]: --resume, --skip-tiles
  files,              \* the output files on disk: their content, NULL if missing
  files_before,       \* the output files when the run started
  symlinks,           \* dev server: the symbolic links under its two roots
  request,            \* dev server: the request path translate_path got
  response            \* dev server: the file system path it returned

inputs == <<args, opts, route_cols, routes_raw, la_raw, rpt_raw, engine>>
disk == <<files, files_before>>
server == <<symlinks, request, response>>
tables == <<routes, routes_len, la, rpt,
            la_intersections, la_primary, la_final, la_membership,
            rpt_intersections, rpt_primary, rpt_final, rpt_membership,
            routes_out>>
vars == <<inputs, pc, tables, log, run, prev_out, disk, server>>

\* -------------------------------------------------------------- inputs
Letters == <<"A", "B", "C", "D">>
\* the code and the name a region layer's file gives its j-th region
RegionCode(L, j) == IF L = "la" THEN <<Letters[j]>> ELSE <<"R", Letters[j]>>
RegionName(L, j) == IF L = "la" THEN <<"n", Letters[j]>> ELSE <<"m", Letters[j]>>

\* a code that has the layer's first code as prefix and as suffix
LongCode(L, j) == RegionCode(L, 1) \o RegionCode(L, j) \o RegionCode(L, 1)
\* the code and the name of a region, given what is special about it (D):
\* a missing or a null name property, an empty text, a code that contains
\* another, a code with a '|' in it
CodeOf(L, j, D) ==
  IF <<"emptycode", <<L, j>>>> \in D THEN Some(<<>>)
  ELSE IF <<"pipecode", <<L, j>>>> \in D
       THEN Some(RegionCode(L, 1) \o Pipe \o Letters[j])
  ELSE IF <<"longcode", <<L, j>>>> \in D THEN Some(LongCode(L, j))
  ELSE Some(RegionCode(L, j))
NameOf(L, j, D) ==
  IF <<"noname", <<L, j>>>> \in D \/ <<"nullname", <<L, j>>>> \in D THEN NULL
  ELSE IF <<"emptyname", <<L, j>>>> \in D THEN Some(<<>>)
  ELSE Some(RegionName(L, j))
\* how the layer's file spells its code property and its name property
CodeProp(L, D) ==
  IF \E x \in D : x[1] = "upcode" /\ x[2][1] = L
  THEN <<"C", "o", "d", "e">> ELSE <<"c", "o", "d", "e">>
NameProp(L, D) ==
  IF \E x \in D : x[1] = "upname" /\ x[2][1] = L
  THEN <<"N", "A", "M", "E">> ELSE <<"n", "a", "m", "e">>
\* the properties the region's feature carries in the file: the code
\* property, then the name property if it has one
PropsOf(L, j, D) ==
  IF <<"noname", <<L, j>>>> \in D THEN <<CodeProp(L, D)>>
  ELSE <<CodeProp(L, D), NameProp(L, D)>>

\* the value of attribute column c in route i
AttrValue(c, i) == Some(<<c, i>>)

RECURSIVE UpTo(_, _)
\* the subsets of S with at most m elements
UpTo(S, m) ==
  IF m = 0 THEN {{}}
  ELSE LET P == UpTo(S, m - 1) IN P \cup {T \cup {x} : T \in P, x \in S}

\* the (route, region) pairs of both layers, by geometry
PairSlots(n, kla, krpt) ==
  ({"la"} \X (1..n) \X (1..kla)) \cup ({"rpt"} \X (1..n) \X (1..krpt))
RegionSlots(kla, krpt) == ({"la"} \X (1..kla)) \cup ({"rpt"} \X (1..krpt))

\* the lengths the engine measures for n routes: each from RL, at most one
\* route of length zero
RouteLengthsOf(n, RL) ==
  {t \in [1..n -> RL] : Cardinality({i \in 1..n : t[i] = 0}) <= 1}

\* A run's inputs.  T: the threshold pairs, RL: the route lengths the engine
\* may measure, CS: the attribute column sets, LV: the intersection lengths
\* the engine may measure, h: how many pairs intersect, d: how many regions
\* are special in one of the ways DK (no name, an empty or a containing
\* text, a geometry that stays invalid after ST_MakeValid / ST_Buffer).
\* The two layers hold at most MaxRegions regions together.
InitInputs(T, RL, CS, LV, h, d, DK) ==
  \E n \in 1..MaxRoutes, kla \in 0..MaxRegions :
  \E krpt \in 0..(MaxRegions - kla) :
  \E th \in T, tot \in RouteLengthsOf(n, RL), cols \in CS :
  \E S \in UpTo(PairSlots(n, kla, krpt), h) :
  \E lens \in [S -> LV] :
  \E D \in UpTo(DK \X RegionSlots(kla, krpt), d) :
    /\ args = [min_length_m |-> th[1], min_share |-> th[2]]
    /\ route_cols = cols
    /\ routes_raw = [i \in 1..n |-> [attrs |-> [c \in cols |-> AttrValue(c, i)],
                                     geom |-> i]]
    /\ la_raw = [j \in 1..kla |->
                  [code |-> CodeOf("la", j, D),
                   name |-> NameOf("la", j, D),
                   props |-> PropsOf("la", j, D),
                   geom |-> j]]
    /\ rpt_raw = [j \in 1..krpt |->
                  [code |-> CodeOf("rpt", j, D),
                   name |-> NameOf("rpt", j, D),
                   props |-> PropsOf("rpt", j, D),
                   geom |-> j]]
    /\ engine = [length |-> tot,
                 invalid |-> {x[2] : x \in {y \in D : y[1] = "invalid"}},
                 hits |-> lens]

Empty == <<>>

InitTables ==
  /\ routes = Empty /\ routes_len = Empty /\ la = Empty /\ rpt = Empty
  /\ la_intersections = Empty /\ la_primary = Empty
  /\ la_final = Empty /\ la_membership = Empty
  /\ rpt_intersections = Empty /\ rpt_primary = Empty
  /\ rpt_final = Empty /\ rpt_membership = Empty
  /\ routes_out = Empty

\* ------------------------------------------------------ geometry engine
\* ST_Length(ST_Transform(geom, 'EPSG:4326', 'EPSG:27700')) of a route
ST_Length(g) == Some(engine.length[g])
\* ST_IsValid(geom_27700) of region g of layer L
ST_IsValid(L, g) == <<L, g>> \notin engine.invalid
\* ST_Intersects(r.geom_27700, l.geom_27700)
ST_Intersects(L, r, g) == <<L, r, g>> \in DOMAIN engine.hits
\* ST_Length(ST_Intersection(r.geom_27700, l.geom_27700)), NULL when undefined
ST_IntersectionLength(L, r, g) == engine.hits[<<L, r, g>>]

\* ------------------------------------------------------------ statements
\* CREATE TABLE routes: row_number() OVER () AS route_id, the attribute
\* columns, geom.  With no attribute column the select list reads
\* "route_id, , geom", which DuckDB rejects: the run ends with the error.
Normalize ==
  /\ pc = "normalize"
  /\ IF route_cols = {}
     THEN /\ pc' = "failed"
          /\ UNCHANGED routes
     ELSE /\ routes' = [i \in 1..Len(routes_raw) |->
                         [route_id |-> i,
                          attrs |-> routes_raw[i].attrs,
                          geom |-> routes_raw[i].geom]]
          /\ pc' = "lengths"
  /\ UNCHANGED <<inputs, routes_len, la, rpt,
                 la_intersections, la_primary, la_final, la_membership,
                 rpt_intersections, rpt_primary, rpt_final, rpt_membership,
                 routes_out, log, run, prev_out, disk, server>>

\* CREATE TABLE routes_len: routes plus geom_27700 and route_length_m
RouteLengths ==
  /\ pc = "lengths"
  /\ routes_len' = [i \in 1..Len(routes) |->
                     [route_id |-> routes[i].route_id,
                      attrs |-> routes[i].attrs,
                      geom |-> routes[i].geom,
                      geom_27700 |-> routes[i].geom,
                      route_length_m |-> ST_Length(routes[i].geom)]]
  /\ pc' = "prepare_la"
  /\ UNCHANGED <<inputs, routes, la, rpt,
                 la_intersections, la_primary, la_final, la_membership,
                 rpt_intersections, rpt_primary, rpt_final, rpt_membership,
                 routes_out, log, run, prev_out, disk, server>>

\* the value a feature has in column col of the table ST_Read makes of
\* its file: NULL where the feature does not carry the property
ValueOf(row, col) ==
  IF col = row.props[1] THEN row.code
  ELSE IF Len(row.props) >= 2 /\ col = row.props[2] THEN row.name
  ELSE NULL

\* a region table: CAST(<code column> AS VARCHAR) AS code, CAST(<name
\* column> AS VARCHAR) AS name, and the repaired geometry in both CRSs
Prepared(raw, code_col, name_col) ==
  [j \in 1..Len(raw) |->
    [code |-> ValueOf(raw[j], code_col), name |-> ValueOf(raw[j], name_col),
     geom |-> raw[j].geom, geom_27700 |-> raw[j].geom]]

\* get_columns(conn, table) of a region table read by ST_Read: the geometry
\* and every property some feature of the file carries
get_columns(raw) ==
  Distinct(<<<<"g", "e", "o", "m">>>> \o Flatten([j \in 1..Len(raw) |-> raw[j].props]))

UpperCase == <<"A", "B", "C", "D", "E", "F", "G", "H", "I", "J", "K", "L", "M", "N", "O", "P", "Q", "R", "S", "T", "U", "V", "W", "X", "Y", "Z">>
LowerCase == <<"a", "b", "c", "d", "e", "f", "g", "h", "i", "j", "k", "l", "m", "n", "o", "p", "q", "r", "s", "t", "u", "v", "w", "x", "y", "z">>
\* the lower-case letter of each upper-case letter
LowerOf == [c \in {UpperCase[k] : k \in 1..26} |->
             LowerCase[CHOOSE k \in 1..26 : UpperCase[k] = c]]
\* str.lower()
str_lower(t) ==
  [p \in 1..Len(t) |-> IF t[p] \in DOMAIN LowerOf THEN LowerOf[t[p]] ELSE t[p]]
\* find_column(columns, candidates): lower maps each column's lower-case
\* form to the column (of two columns with the same form the later one);
\* the first candidate with a non-empty hit gives the column, NULL for None
find_column(columns, candidates) ==
  LET at(k) == {p \in 1..Len(columns) :
                  str_lower(columns[p]) = str_lower(candidates[k])}
      hit(k) == IF at(k) = {} THEN NULL ELSE Some(columns[Max(at(k))])
      found == {k \in 1..Len(candidates) : ~IsNull(hit(k)) /\ Val(hit(k)) # <<>>}
  IN IF found = {} THEN NULL ELSE hit(Min(found))
GeomNames ==
  <<<<"g", "e", "o", "m">>,
    <<"g", "e", "o", "m", "e", "t", "r", "y">>,
    <<"w", "k", "b", "_", "g", "e", "o", "m", "e", "t", "r", "y">>>>
\* the candidates for the code column and for the name column of a layer
CodeNames(L) ==
  IF L = "la"
  THEN <<<<"c", "o", "d", "e">>,
    <<"l", "a", "_", "c", "o", "d", "e">>,
    <<"l", "a">>>>
  ELSE <<<<"r", "p", "t", "_", "c", "o", "d", "e">>,
    <<"c", "o", "d", "e">>,
    <<"r", "p", "t">>>>
NameNames(L) ==
  IF L = "la"
  THEN <<<<"l", "o", "c", "a", "l", "_", "a", "u", "t", "h", "o", "r", "i", "t", "y">>,
    <<"l", "a", "_", "n", "a", "m", "e">>,
    <<"n", "a", "m", "e">>>>
  ELSE <<<<"r", "p", "t", "_", "n", "a", "m", "e">>,
    <<"n", "a", "m", "e">>>>
\* "Could not find expected LA / RTP columns.": no geometry or no code column
MissingColumns(geom, code) == IsNull(geom) \/ IsNull(code)
\* quote_ident(name) raises on None
QuoteFails(name) == IsNull(name)

\* la_cols, the column lookup, CREATE TABLE la.  Without a code column
\* main() raises RuntimeError; without a name column quote_ident(None)
\* raises AttributeError: the run ends with the error.
PrepareLA ==
  /\ pc = "prepare_la"
  /\ LET la_cols == get_columns(la_raw)
         la_geom == find_column(la_cols, GeomNames)
         la_code_col == find_column(la_cols, CodeNames("la"))
         la_name_col == find_column(la_cols, NameNames("la"))
     IN IF MissingColumns(la_geom, la_code_col) \/ QuoteFails(la_name_col)
        THEN /\ pc' = "failed"
             /\ UNCHANGED la
        ELSE /\ la' = Prepared(la_raw, Val(la_code_col), Val(la_name_col))
             /\ pc' = "prepare_rpt"
  /\ UNCHANGED <<inputs, routes, routes_len, rpt,
                 la_intersections, la_primary, la_final, la_membership,
                 rpt_intersections, rpt_primary, rpt_final, rpt_membership,
                 routes_out, log, run, prev_out, disk, server>>

\* rpt_cols, the column lookup, CREATE TABLE rpt, with the same two
\* failures
PrepareRPT ==
  /\ pc = "prepare_rpt"
  /\ LET rpt_cols == get_columns(rpt_raw)
         rpt_geom == find_column(rpt_cols, GeomNames)
         rpt_code_col == find_column(rpt_cols, CodeNames("rpt"))
         rpt_name_col == find_column(rpt_cols, NameNames("rpt"))
     IN IF MissingColumns(rpt_geom, rpt_code_col) \/ QuoteFails(rpt_name_col)
        THEN /\ pc' = "failed"
             /\ UNCHANGED rpt
        ELSE /\ rpt' = Prepared(rpt_raw, Val(rpt_code_col), Val(rpt_name_col))
             /\ pc' = "la_verify"
  /\ UNCHANGED <<inputs, routes, routes_len, la,
                 la_intersections, la_primary, la_final, la_membership,
                 rpt_intersections, rpt_primary, rpt_final, rpt_membership,
                 routes_out, log, run, prev_out, disk, server>>

\* SELECT COUNT(*) FROM la WHERE ST_IsValid(geom_27700) = false
InvalidCount(L, regs) ==
  Cardinality({j \in 1..Len(regs) : ~ST_IsValid(L, regs[j].geom_27700)})

\* the validity check of the LA layer: it counts and warns, nothing else
LaVerify ==
  /\ pc = "la_verify"
  /\ LET invalid_la == InvalidCount("la", la)
     IN log' = IF invalid_la > 0
               THEN log \cup {[warning |-> "la_invalid", n |-> invalid_la]}
               ELSE log
  /\ pc' = "la_join"
  /\ UNCHANGED <<inputs, tables, run, prev_out, disk, server>>

\* ------------------------------------------------ one layer's statements
\* CREATE TABLE <layer>_intersections: routes_len JOIN regions ON
\* ST_Intersects.  The join gives no order to its rows: `order' is the
\* order in which this run happens to emit the regions.
Intersections(L, rl, regs, order) ==
  Flatten([i \in 1..Len(rl) |->
    LET hit == SelectSeq([p \in 1..Len(regs) |-> regs[order[p]]],
                 LAMBDA l : ST_Intersects(L, rl[i].geom_27700, l.geom_27700))
    IN [q \in 1..Len(hit) |->
         [route_id |-> rl[i].route_id,
          code |-> hit[q].code,
          name |-> hit[q].name,
          len_m |-> ST_IntersectionLength(L, rl[i].geom_27700,
                                          hit[q].geom_27700)]]])

\* DELETE FROM <layer>_intersections WHERE len_m IS NULL OR len_m <= 0
Cleaned(rows) ==
  SelectSeq(rows, LAMBDA x :
    ~IsTrue(SqlOr(Some(IsNull(x.len_m)), SqlLe(x.len_m, Some(0)))))

\* the rows of one route, in table order
Group(rows, id) == SelectSeq(rows, LAMBDA x : x.route_id = id)
\* GROUP BY route_id: the route ids that have rows
GroupKeys(rows) == Distinct([i \in 1..Len(rows) |-> rows[i].route_id])

\* CREATE TABLE <layer>_primary: arg_max(code, len_m), arg_max(name, len_m)
\* GROUP BY route_id
Primary(rows) ==
  LET keys == GroupKeys(rows)
  IN [g \in 1..Len(keys) |->
       [route_id |-> keys[g],
        code |-> arg_max(Group(rows, keys[g]), "code", "len_m"),
        name |-> arg_max(Group(rows, keys[g]), "name", "len_m")]]

\* CREATE TABLE <layer>_final: routes_len LEFT JOIN <layer>_primary; a
\* route without a primary row keeps NULL code and name
Final(rl, primary) ==
  Flatten([i \in 1..Len(rl) |->
    LET m == Group(primary, rl[i].route_id)
    IN IF m = <<>>
       THEN <<[route_id |-> rl[i].route_id, code |-> NULL, name |-> NULL]>>
       ELSE [q \in 1..Len(m) |->
              [route_id |-> rl[i].route_id,
               code |-> m[q].code, name |-> m[q].name]]])

\* SELECT COUNT(*) FROM <layer>_final WHERE code IS NULL
NullCount(final) == Cardinality({i \in 1..Len(final) : IsNull(final[i].code)})

\* (a variant without the length floor)
NoLengthFloor(len_m, a) == Some(TRUE)

\* i.len_m >= min_length_m
LengthFloor(len_m, a) == SqlGe(len_m, Some(a.min_length_m))
\* (a variant without the share floor)
NoShareFloor(len_m, route_length_m, a) == Some(TRUE)

\* i.len_m / NULLIF(r.route_length_m, 0) >= min_share
ShareFloor(len_m, route_length_m, a) ==
  QuotGe(SqlDiv(len_m, NULLIF(route_length_m, Some(0))), a.min_share)
\* the WHERE clause of the membership statement
Survives(len_m, route_length_m, a) ==
  SqlAnd(LengthFloor(len_m, a), ShareFloor(len_m, route_length_m, a))

\* '|' || string_agg(col, '|' ORDER BY len_m DESC) || '|'
Delimited(rows, col) ==
  Concat(Concat(Some(Pipe), string_agg(rows, col, Pipe, "len_m")), Some(Pipe))

\* CREATE TABLE <layer>_membership: intersections JOIN routes_len, the two
\* floors, GROUP BY route_id, the two delimited strings
Membership(ints, rl, a) ==
  LET joined == Flatten([x \in 1..Len(ints) |->
                  LET m == Group(rl, ints[x].route_id)
                  IN [y \in 1..Len(m) |->
                       [route_id |-> ints[x].route_id,
                        code |-> ints[x].code,
                        name |-> ints[x].name,
                        len_m |-> ints[x].len_m,
                        route_length_m |-> m[y].route_length_m]]])
      kept == SelectSeq(joined, LAMBDA w :
                IsTrue(Survives(w.len_m, w.route_length_m, a)))
      keys == GroupKeys(kept)
  IN [g \in 1..Len(keys) |->
       [route_id |-> keys[g],
        codes |-> Delimited(Group(kept, keys[g]), "code"),
        names |-> Delimited(Group(kept, keys[g]), "name")]]

\* the orders in which a join may emit the rows of a region table
Orders(regs) == Permutations(1..Len(regs))

\* CREATE TABLE la_intersections
LaJoin ==
  /\ pc = "la_join"
  /\ \E order \in Orders(la) :
       la_intersections' = Intersections("la", routes_len, la, order)
  /\ pc' = "la_clean"
  /\ UNCHANGED <<inputs, routes, routes_len, la, rpt, la_primary,
                 la_final, la_membership, rpt_intersections, rpt_primary,
                 rpt_final, rpt_membership, routes_out, log, run,
                 prev_out, disk, server>>

\* DELETE FROM la_intersections WHERE len_m IS NULL OR len_m <= 0
LaClean ==
  /\ pc = "la_clean"
  /\ la_intersections' = Cleaned(la_intersections)
  /\ pc' = "la_primary"
  /\ UNCHANGED <<inputs, routes, routes_len, la, rpt, la_primary,
                 la_final, la_membership, rpt_intersections, rpt_primary,
                 rpt_final, rpt_membership, routes_out, log, run,
                 prev_out, disk, server>>

\* CREATE TABLE la_primary
LaPrimary ==
  /\ pc = "la_primary"
  /\ la_primary' = Primary(la_intersections)
  /\ pc' = "la_final"
  /\ UNCHANGED <<inputs, routes, routes_len, la, rpt, la_intersections,
                 la_final, la_membership, rpt_intersections, rpt_primary,
                 rpt_final, rpt_membership, routes_out, log, run,
                 prev_out, disk, server>>

\* CREATE TABLE la_final, and the warning for routes left without a code
LaFinal ==
  /\ pc = "la_final"
  /\ la_final' = Final(routes_len, la_primary)
  /\ LET null_count == NullCount(la_final')
     IN log' = IF null_count > 0
               THEN log \cup {[warning |-> "la_unassigned", n |-> null_count]}
               ELSE log
  /\ pc' = "la_membership"
  /\ UNCHANGED <<inputs, routes, routes_len, la, rpt, la_intersections,
                 la_primary, la_membership, rpt_intersections,
                 rpt_primary, rpt_final, rpt_membership, routes_out, run,
                 prev_out, disk, server>>

\* CREATE TABLE la_membership
LaMembership ==
  /\ pc = "la_membership"
  /\ la_membership' = Membership(la_intersections, routes_len, args)
  /\ pc' = "rpt_join"
  /\ UNCHANGED <<inputs, routes, routes_len, la, rpt, la_intersections,
                 la_primary, la_final, rpt_intersections, rpt_primary,
                 rpt_final, rpt_membership, routes_out, log, run,
                 prev_out, disk, server>>

\* CREATE TABLE rpt_intersections
RptJoin ==
  /\ pc = "rpt_join"
  /\ \E order \in Orders(rpt) :
       rpt_intersections' = Intersections("rpt", routes_len, rpt, order)
  /\ pc' = "rpt_clean"
  /\ UNCHANGED <<inputs, routes, routes_len, la, rpt, la_intersections,
                 la_primary, la_final, la_membership, rpt_primary,
                 rpt_final, rpt_membership, routes_out, log, run,
                 prev_out, disk, server>>

\* DELETE FROM rpt_intersections WHERE len_m IS NULL OR len_m <= 0
RptClean ==
  /\ pc = "rpt_clean"
  /\ rpt_intersections' = Cleaned(rpt_intersections)
  /\ pc' = "rpt_primary"
  /\ UNCHANGED <<inputs, routes, routes_len, la, rpt, la_intersections,
                 la_primary, la_final, la_membership, rpt_primary,
                 rpt_final, rpt_membership, routes_out, log, run,
                 prev_out, disk, server>>

\* CREATE TABLE rpt_primary
RptPrimary ==
  /\ pc = "rpt_primary"
  /\ rpt_primary' = Primary(rpt_intersections)
  /\ pc' = "rpt_final"
  /\ UNCHANGED <<inputs, routes, routes_len, la, rpt, la_intersections,
                 la_primary, la_final, la_membership, rpt_intersections,
                 rpt_final, rpt_membership, routes_out, log, run,
                 prev_out, disk, server>>

\* CREATE TABLE rpt_final, and the warning for routes left without a code
RptFinal ==
  /\ pc = "rpt_final"
  /\ rpt_final' = Final(routes_len, rpt_primary)
  /\ LET null_count == NullCount(rpt_final')
     IN log' = IF null_count > 0
               THEN log \cup {[warning |-> "rpt_unassigned", n |-> null_count]}
               ELSE log
  /\ pc' = "rpt_membership"
  /\ UNCHANGED <<inputs, routes, routes_len, la, rpt, la_intersections,
                 la_primary, la_final, la_membership, rpt_intersections,
                 rpt_primary, rpt_membership, routes_out, run, prev_out, disk, server>>

\* CREATE TABLE rpt_membership
RptMembership ==
  /\ pc = "rpt_membership"
  /\ rpt_membership' = Membership(rpt_intersections, routes_len, args)
  /\ pc' = "routes_out"
  /\ UNCHANGED <<inputs, routes, routes_len, la, rpt, la_intersections,
                 la_primary, la_final, la_membership, rpt_intersections,
                 rpt_primary, rpt_final, routes_out, log, run, prev_out, disk, server>>

\* ------------------------------------------------------------- assembly
\* (a variant that keeps every attribute column)
ExcludeNothing == {}

\* the names main() keeps for its own output fields
exclude ==
  {"la_code", "la_name", "rpt_code", "rpt_name", "la_codes", "la_names",
   "rpt_codes", "rpt_names", "route_id", "route_length_m"}
output_cols == route_cols \ exclude

\* LEFT JOIN t ON t.route_id = r.route_id: the rows of t for the route, or
\* one all-NULL row
LeftMatches(t, id, nullrow) ==
  LET m == Group(t, id) IN IF m = <<>> THEN <<nullrow>> ELSE m

\* (a variant that fills the missing membership with empty lists)
EmptyMembership ==
  [route_id |-> NULL, codes |-> Some(Pipe \o Pipe), names |-> Some(Pipe \o Pipe)]

NoPrimary == [route_id |-> NULL, code |-> NULL, name |-> NULL]
NoMembership == [route_id |-> NULL, codes |-> NULL, names |-> NULL]

\* CREATE TABLE routes_out.  A row keeps the attribute columns that are not
\* excluded, the original geometry and the eight computed fields; route_id
\* is not selected, it is kept here to tell which route a row came from.
OutRows(rl, laf, lam, rpf, rpm) ==
  Flatten([i \in 1..Len(rl) |->
    LET r == rl[i]
        a == LeftMatches(laf, r.route_id, NoPrimary)
        b == LeftMatches(lam, r.route_id, NoMembership)
        c == LeftMatches(rpf, r.route_id, NoPrimary)
        d == LeftMatches(rpm, r.route_id, NoMembership)
    IN Flatten([w \in 1..Len(a) |-> Flatten([x \in 1..Len(b) |->
       Flatten([y \in 1..Len(c) |-> [z \in 1..Len(d) |->
         [route_id |-> r.route_id,
          attrs |-> [col \in output_cols |-> r.attrs[col]],
          geometry |-> r.geom,
          la_code |-> a[w].code, la_name |-> a[w].name,
          la_codes |-> b[x].codes, la_names |-> b[x].names,
          rpt_code |-> c[y].code, rpt_name |-> c[y].name,
          rpt_codes |-> d[z].codes, rpt_names |-> d[z].names]]])])])])

\* With every attribute column excluded the select list starts with a
\* comma, which DuckDB rejects: the run ends with the error.
RoutesOut ==
  /\ pc = "routes_out"
  /\ IF output_cols = {}
     THEN /\ pc' = "failed"
          /\ UNCHANGED routes_out
     ELSE /\ routes_out' = OutRows(routes_len, la_final, la_membership,
                                   rpt_final, rpt_membership)
          /\ pc' = "built"
  /\ UNCHANGED <<inputs, routes, routes_len, la, rpt, la_intersections,
                 la_primary, la_final, la_membership, rpt_intersections,
                 rpt_primary, rpt_final, rpt_membership, log, run,
                 prev_out, disk, server>>

\* A second run of the build on the same files, after the first has
\* returned or has raised in its tile step: the inputs and the engine's
\* answers are the same, every table is built anew, the output directories
\* hold what the first run left.
Rerun ==
  /\ pc \in {"done", "raised"}
  /\ run < MaxRuns
  /\ prev_out' = routes_out
  /\ run' = run + 1
  /\ routes' = Empty /\ routes_len' = Empty /\ la' = Empty /\ rpt' = Empty
  /\ la_intersections' = Empty /\ la_primary' = Empty
  /\ la_final' = Empty /\ la_membership' = Empty
  /\ rpt_intersections' = Empty /\ rpt_primary' = Empty
  /\ rpt_final' = Empty /\ rpt_membership' = Empty
  /\ routes_out' = Empty
  /\ log' = {}
  /\ pc' = "normalize"
  /\ files_before' = files
  /\ UNCHANGED <<inputs, files, server>>

\* ----------------------------------------------------------- output files
\* routes.parquet, routes_enriched.geojson, operators.parquet in
\* parquet_dir / data_dir, routes.mbtiles, routes.pmtiles
FileNames ==
  {"routes.parquet", "routes_enriched.geojson", "operators.parquet",
   "routes.mbtiles", "routes.pmtiles"}
\* what a file holds: left by an earlier run, or written by this run from
\* routes_out, or built from another file
Old == <<"old">>
New == <<"routes_out">>
NoFiles == [f \in FileNames |-> NULL]

\* COPY (SELECT * FROM routes_out) TO 'routes.parquet'
WriteParquet ==
  /\ pc = "built"
  /\ files' = [files EXCEPT !["routes.parquet"] = Some(New)]
  /\ pc' = "write_geojson"
  /\ UNCHANGED <<inputs, tables, log, run, prev_out, files_before, server>>

\* try: CALL ST_Write(routes_out, 'routes_enriched.geojson'); a failure is
\* logged as a warning and the file stays as it was
WriteGeoJSON ==
  /\ pc = "write_geojson"
  /\ \E raises \in BOOLEAN :
       IF raises
       THEN /\ log' = log \cup {[warning |-> "geojson_failed", n |-> 0]}
            /\ UNCHANGED files
       ELSE /\ files' = [files EXCEPT !["routes_enriched.geojson"] = Some(New)]
            /\ UNCHANGED log
  /\ pc' = "write_operators"
  /\ UNCHANGED <<inputs, tables, run, prev_out, files_before, server>>

\* COPY (SELECT DISTINCT operatorCode, operatorName FROM routes_out ...) TO
\* 'operators.parquet'.  Without both columns in routes_out the statement
\* does not bind and the run ends with the error.
WriteOperators ==
  /\ pc = "write_operators"
  /\ IF {"operatorCode", "operatorName"} \subseteq output_cols
     THEN /\ files' = [files EXCEPT !["operators.parquet"] = Some(New)]
          /\ pc' = IF opts.skip_tiles THEN "complete" ELSE "tippecanoe"
     ELSE /\ pc' = "raised"
          /\ UNCHANGED files
  /\ UNCHANGED <<inputs, tables, log, run, prev_out, files_before, server>>

\* run_tippecanoe(output_geojson, mbtiles_path, layer): tippecanoe --force
\* reads whatever file is at output_geojson; check_call raises when there
\* is none
RunTippecanoe ==
  /\ pc = "tippecanoe"
  /\ IF IsNull(files["routes_enriched.geojson"])
     THEN /\ pc' = "raised"
          /\ UNCHANGED files
     ELSE /\ files' = [files EXCEPT !["routes.mbtiles"] =
                         Some(<<"tiles">> \o Val(files["routes_enriched.geojson"]))]
          /\ pc' = "pmtiles"
  /\ UNCHANGED <<inputs, tables, log, run, prev_out, files_before, server>>

\* mbtiles_to_pmtiles(mbtiles_path, pmtiles_path): reads the maxzoom row of
\* the tile set's metadata and raises RuntimeError when there is none
MbtilesToPmtiles ==
  /\ pc = "pmtiles"
  /\ \E row \in BOOLEAN :
       IF row
       THEN /\ files' = [files EXCEPT !["routes.pmtiles"] =
                           Some(<<"pmtiles">> \o Val(files["routes.mbtiles"]))]
            /\ pc' = "complete"
       ELSE /\ pc' = "raised"
            /\ UNCHANGED files
  /\ UNCHANGED <<inputs, tables, log, run, prev_out, files_before, server>>

\* log_progress("Build complete!")
BuildComplete ==
  /\ pc = "complete"
  /\ pc' = "done"
  /\ UNCHANGED <<inputs, tables, log, run, prev_out, disk, server>>

\* ------------------------------------------------------- specifications
Thresholds == {<<0, 0>>, <<100, 0>>, <<0, 5>>, <<100, 5>>, <<0, 10>>}
RouteLens == {0, 1000}
OverlapLens == {NULL, Some(0), Some(600)}
DefaultCols == {"operatorCode", "operatorName"}
ColSets ==
  {{}, {"la_code"}, {"operatorCode", "la_codes"}, {"route_id"},
   {"operatorCode", "route_id"}}

InitRun ==
  /\ InitTables
  /\ pc = "normalize"
  /\ log = {}
  /\ run = 1
  /\ prev_out = Empty
\* no --resume, no --skip-tiles, empty output directories
InitDisk ==
  /\ opts = [resume |-> FALSE, skip_tiles |-> FALSE]
  /\ files = NoFiles
  /\ files_before = NoFiles
\* the dev server is not part of a build
InitIdle ==
  /\ symlinks = {}
  /\ request = NULL
  /\ response = NULL

\* what the engine finds, with the default thresholds
InitOverlaps ==
  InitInputs({<<0, 0>>}, {1000}, {DefaultCols}, OverlapLens, MaxHits, 0, {})
\* regions whose geometry stays invalid
InitDefects ==
  InitInputs({<<0, 0>>}, {1000}, {DefaultCols}, {Some(600)}, 1,
             MaxDefects, {"invalid"})
\* regions whose name property is null, overlaps of different lengths
InitNames ==
  InitInputs({<<0, 0>>}, {1000}, {DefaultCols}, {Some(50), Some(600)}, 2,
             1, {"nullname"})
\* regions without a name property, regions whose code or name is the
\* empty text or whose code contains another region's code
InitTexts ==
  InitInputs({<<0, 0>>}, {1000}, {DefaultCols}, {Some(600)}, 1,
             1, {"noname", "emptycode", "emptyname", "longcode"})
\* the two floors against overlaps of 50 m and 600 m
InitFloors ==
  InitInputs(Thresholds, {1000}, {DefaultCols}, {Some(50), Some(600)}, 2,
             0, {})
\* no floor and a share floor of 0.10 against routes of length 0 and 1000
\* with overlaps of 50 m
InitZero ==
  InitInputs({<<0, 0>>, <<0, 10>>}, RouteLens, {DefaultCols},
             {Some(50)}, 2, 0, {})
\* the attribute columns of the routes file
InitColumns ==
  InitInputs({<<0, 0>>}, {1000}, ColSets, {Some(600)}, 1, 0, {})
\* files that spell their properties Code and NAME
InitSpellings ==
  InitInputs({<<0, 0>>}, {1000}, {DefaultCols}, {Some(600)}, 1, 1,
             {"upcode", "upname"})

Init ==
  (InitOverlaps \/ InitDefects \/ InitNames \/ InitTexts \/ InitFloors
     \/ InitZero \/ InitColumns \/ InitSpellings)
    /\ InitRun /\ InitDisk /\ InitIdle

Next ==
  \/ Normalize \/ RouteLengths \/ PrepareLA \/ PrepareRPT \/ LaVerify
  \/ LaJoin \/ LaClean \/ LaPrimary \/ LaFinal \/ LaMembership
  \/ RptJoin \/ RptClean \/ RptPrimary \/ RptFinal \/ RptMembership
  \/ RoutesOut
  \/ WriteParquet \/ WriteGeoJSON \/ WriteOperators
  \/ RunTippecanoe \/ MbtilesToPmtiles \/ BuildComplete

Spec == Init /\ [][Next]_vars

InitTwice ==
  InitInputs({<<0, 0>>}, {1000}, {DefaultCols}, {Some(50), Some(600)}, MaxHits,
             0, {}) /\ InitRun /\ InitDisk /\ InitIdle
NextTwice == Next \/ Rerun
SpecTwice == InitTwice /\ [][NextTwice]_vars

\* the run with and without --resume and --skip-tiles, in output
\* directories that hold any of the files from an earlier run
WriteCols == {DefaultCols, {"operatorCode"}}
InitWrite ==
  /\ InitInputs({<<0, 0>>}, {1000}, WriteCols, {Some(600)}, 1, 0, {})
  /\ InitRun
  /\ opts \in [resume : BOOLEAN, skip_tiles : BOOLEAN]
  /\ files \in [FileNames -> {NULL, Some(Old)}]
  /\ files_before = files
  /\ InitIdle
SpecWrite == InitWrite /\ [][Next]_vars

\* region files in which a code has a '|' in it
InitPipes ==
  InitInputs({<<0, 0>>}, {1000}, {DefaultCols}, {Some(600)}, 1, 1,
             {"pipecode"}) /\ InitRun /\ InitDisk /\ InitIdle
SpecPipes == InitPipes /\ [][Next]_vars

\* ------------------------------------------------ what the claims speak of
Layers == {"la", "rpt"}
Built == pc = "built"
RouteIds == 1..Len(routes_raw)
Regions(L) == IF L = "la" THEN la_raw ELSE rpt_raw
PrimaryTable(L) == IF L = "la" THEN la_primary ELSE rpt_primary
OutCode(row, L) == IF L = "la" THEN row.la_code ELSE row.rpt_code
OutName(row, L) == IF L = "la" THEN row.la_name ELSE row.rpt_name
OutCodes(row, L) == IF L = "la" THEN row.la_codes ELSE row.rpt_codes
OutNames(row, L) == IF L = "la" THEN row.la_names ELSE row.rpt_names
\* the output records of route i
OutRowsOf(i) == {k \in 1..Len(routes_out) : routes_out[k].route_id = i}

\* the route's Overlap set in layer L: the regions the engine reports as
\* intersecting with a defined, positive length
Overlap(L, i) ==
  {j \in 1..Len(Regions(L)) :
     /\ <<L, i, j>> \in DOMAIN engine.hits
     /\ engine.hits[<<L, i, j>>] # NULL
     /\ Val(engine.hits[<<L, i, j>>]) > 0}
OverlapLen(L, i, j) == Val(engine.hits[<<L, i, j>>])
MaxOverlap(L, i) == Max({OverlapLen(L, i, j) : j \in Overlap(L, i)})
TotalLen(i) == engine.length[i]

\* the segments of a text between separators
RECURSIVE Split(_, _)
Split(t, sep) ==
  IF \A k \in 1..Len(t) : t[k] # sep THEN <<t>>
  ELSE LET p == Min({k \in 1..Len(t) : t[k] = sep})
       IN <<SubSeq(t, 1, p - 1)>> \o Split(SubSeq(t, p + 1, Len(t)), sep)
\* the entries of a membership string '|a|b|', none when it is absent
Entries(v) ==
  IF IsNull(v) THEN <<>>
  ELSE Split(SubSeq(Val(v), 2, Len(Val(v)) - 1), "|")
\* the regions of layer L with this code
WithCode(L, c) == {j \in 1..Len(Regions(L)) : Regions(L)[j].code = Some(c)}

\* ------------------------------------------- tools/dev_server.py
\* A request path is a text over these pieces; "data", "x" and
\* "index.html" stand for names, ".." for two dots.
PathTokens == {"/", ".", "..", "data", "x", "?", "#"}
MaxPath == 5
Chars(tok) == IF tok = ".." THEN <<".", ".">> ELSE <<tok>>
Text(toks) == Flatten([k \in 1..Len(toks) |-> Chars(toks[k])])
RequestPaths == UNION {[1..n -> PathTokens] : n \in 0..MaxPath}

\* A file system path is the sequence of its segments below "/".
public_dir == <<<<"srv">>, <<"public">>>>
data_dir == <<<<"srv">>, <<"data">>>>
Outside == <<<<"etc">>>>
\* the link sets the server may find under its roots: a link is <<at, to>>
SymlinkSets ==
  {{},
   {<<Append(public_dir, <<"x">>), Outside>>},
   {<<Append(data_dir, <<"x">>), Outside>>},
   {<<Append(data_dir, <<"x">>), public_dir>>}}

\* str.split(c, 1)[0]
Before(t, c) ==
  IF \A k \in 1..Len(t) : t[k] # c THEN t
  ELSE SubSeq(t, 1, Min({k \in 1..Len(t) : t[k] = c}) - 1)
\* str.startswith
StartsWith(t, pre) == Len(t) >= Len(pre) /\ SubSeq(t, 1, Len(pre)) = pre
\* str.lstrip("/")
RECURSIVE lstrip(_)
lstrip(t) == IF t # <<>> /\ Head(t) = "/" THEN lstrip(Tail(t)) ELSE t
\* "/".join(comps)
RECURSIVE Joined(_)
Joined(comps) ==
  IF comps = <<>> THEN <<>>
  ELSE IF Len(comps) = 1 THEN comps[1]
  ELSE comps[1] \o <<"/">> \o Joined(Tail(comps))

\* the loop of posixpath.normpath over the components
RECURSIVE Collapse(_, _, _)
Collapse(comps, new_comps, initial_slashes) ==
  IF comps = <<>> THEN new_comps
  ELSE LET comp == Head(comps)
       IN IF comp = <<>> \/ comp = <<".">>
          THEN Collapse(Tail(comps), new_comps, initial_slashes)
          ELSE IF \/ comp # <<".", ".">>
                  \/ (initial_slashes = 0 /\ new_comps = <<>>)
                  \/ (new_comps # <<>> /\ new_comps[Len(new_comps)] = <<".", ".">>)
          THEN Collapse(Tail(comps), Append(new_comps, comp), initial_slashes)
          ELSE IF new_comps # <<>>
          THEN Collapse(Tail(comps), SubSeq(new_comps, 1, Len(new_comps) - 1),
                        initial_slashes)
          ELSE Collapse(Tail(comps), new_comps, initial_slashes)
\* posixpath.normpath
normpath(t) ==
  IF t = <<>> THEN <<".">>
  ELSE LET initial_slashes ==
             IF t[1] # "/" THEN 0
             ELSE IF StartsWith(t, <<"/", "/">>) /\ ~StartsWith(t, <<"/", "/", "/">>)
                  THEN 2 ELSE 1
           body == Joined(Collapse(Split(t, "/"), <<>>, initial_slashes))
           path == [k \in 1..initial_slashes |-> "/"] \o body
       IN IF path = <<>> THEN <<".">> ELSE path

\* root / rel: the segments of rel, without the empty ones and "."
Parts(rel) ==
  IF rel = <<>> THEN <<>>
  ELSE SelectSeq(Split(rel, "/"), LAMBDA c : c # <<>> /\ c # <<".">>)
\* where the link at path p leads, p itself when there is none
Followed(p) ==
  IF \E l \in symlinks : l[1] = p
  THEN (CHOOSE l \in symlinks : l[1] = p)[2] ELSE p
\* Path.resolve(): ".." goes to the parent, links are followed
RECURSIVE resolve(_, _)
resolve(at, parts) ==
  IF parts = <<>> THEN at
  ELSE IF Head(parts) = <<".", ".">>
  THEN resolve(IF at = <<>> THEN at ELSE SubSeq(at, 1, Len(at) - 1), Tail(parts))
  ELSE resolve(Followed(Append(at, Head(parts))), Tail(parts))

\* (a variant that accepts every candidate)
relative_to_any(candidate, root) == TRUE

\* candidate.relative_to(root) does not raise
relative_to(candidate, root) ==
  Len(candidate) >= Len(root) /\ SubSeq(candidate, 1, Len(root)) = root

\* _safe_join(root, rel): the resolved candidate, NULL for None
safe_join(root, rel) ==
  LET candidate == resolve(root, Parts(lstrip(rel)))
  IN IF relative_to(candidate, root) THEN Some(candidate) ELSE NULL

\* the path translate_path normalizes
Parsed(path) == normpath(Before(Before(path, "?"), "#"))
\* parsed == "/data" or parsed.startswith("/data/")
IsData(parsed) ==
  parsed = <<"/", "data">> \/ StartsWith(parsed, <<"/", "data", "/">>)

\* MultiRootHandler.translate_path
translate_path(path) ==
  LET parsed == Parsed(path)
  IN IF IsData(parsed)
     THEN LET rel == SubSeq(parsed, 3, Len(parsed))
              target == safe_join(data_dir, rel)
          IN IF ~IsNull(target) THEN Val(target) ELSE data_dir
     ELSE LET rel == IF parsed = <<"/">> THEN <<"/", "index.html">> ELSE parsed
              target == safe_join(public_dir, rel)
          IN IF ~IsNull(target) THEN Val(target)
             ELSE Append(public_dir, <<"index.html">>)

\* the handler translates the path of the request it was created for
TranslatePath ==
  /\ pc = "serve"
  /\ IsNull(response)
  /\ response' = Some(translate_path(Val(request)))
  /\ UNCHANGED <<inputs, pc, tables, log, run, prev_out, disk, symlinks,
                 request>>

\* the server runs beside no build; a handler serves one request
InitServe ==
  /\ args = [min_length_m |-> 0, min_share |-> 0]
  /\ route_cols = DefaultCols
  /\ routes_raw = Empty /\ la_raw = Empty /\ rpt_raw = Empty
  /\ engine = [length |-> Empty, invalid |-> {}, hits |-> Empty]
  /\ InitTables
  /\ pc = "serve"
  /\ log = {} /\ run = 1 /\ prev_out = Empty
  /\ InitDisk
  /\ symlinks \in SymlinkSets
  /\ \E toks \in RequestPaths : request = Some(Text(toks))
  /\ response = NULL
NextServe == TranslatePath
SpecServe == InitServe /\ [][NextServe]_vars

\* ---------------------------------------------------------------- C1
\* C1: for every route and layer there is at most one primary assignment,
\* and when the route's Overlap set is not empty the primary code of its
\* output record is the code of an overlap of maximum length.
C1_PrimaryIsArgMax ==
  Built =>
    \A L \in Layers : \A i \in RouteIds :
      /\ Cardinality({g \in 1..Len(PrimaryTable(L)) :
                        PrimaryTable(L)[g].route_id = i}) <= 1
      /\ Overlap(L, i) # {} =>
           \A k \in OutRowsOf(i) :
             \E j \in Overlap(L, i) :
               /\ OverlapLen(L, i, j) = MaxOverlap(L, i)
               /\ OutCode(routes_out[k], L) = Regions(L)[j].code

\* a route with a 50 m and a 600 m overlap whose record carries the code of
\* the 600 m region
C1_Witness ==
  /\ Built
  /\ \E L \in Layers : \E i \in RouteIds : \E j1, j2 \in Overlap(L, i) :
       /\ OverlapLen(L, i, j1) < OverlapLen(L, i, j2)
       /\ \E k \in OutRowsOf(i) : OutCode(routes_out[k], L) = Regions(L)[j2].code

\* ---------------------------------------------------------------- C2
\* distance(route, region) of the geometry engine, which main() never
\* asks for: 0 for an intersecting pair, growing with the region's place
\* in its file otherwise
ST_Distance(L, i, j) == IF <<L, i, j>> \in DOMAIN engine.hits THEN 0 ELSE j
Nearest(L, i) ==
  {j \in 1..Len(Regions(L)) :
     \A j2 \in 1..Len(Regions(L)) : ST_Distance(L, i, j) <= ST_Distance(L, i, j2)}

\* C2: a route with an empty Overlap set in a layer that has regions gets
\* the nearest region as its primary assignment.
C2_NearestFallback ==
  Built =>
    \A L \in Layers : \A i \in RouteIds :
      (Overlap(L, i) = {} /\ Regions(L) # <<>>) =>
        /\ OutRowsOf(i) # {}
        /\ \A k \in OutRowsOf(i) :
             \E j \in Nearest(L, i) :
               OutCode(routes_out[k], L) = Regions(L)[j].code

\* ---------------------------------------------------------------- C3
\* C3: the primary code of a record is absent exactly when the layer has no
\* regions: with regions in the layer every record has a primary code, and
\* a layer without regions leaves the primaries absent and does not stop
\* the run.
C3_AbsentIffEmptyLayer ==
  /\ Built =>
       \A L \in Layers : \A i \in RouteIds :
         /\ OutRowsOf(i) # {}
         /\ \A k \in OutRowsOf(i) :
              IsNull(OutCode(routes_out[k], L)) <=> Regions(L) = <<>>
  /\ (route_cols \ exclude # {} /\ \E L \in Layers : Regions(L) = <<>>) =>
       pc # "failed"

\* ---------------------------------------------------------------- C4
\* the two floors, in plain arithmetic
PassesFloors(len, total) ==
  /\ len >= args.min_length_m
  /\ total # 0
  /\ len * 100 >= args.min_share * total

\* C4: an overlap pair is an entry of the route's membership list exactly
\* when its length is at least min_length_m and its share of the route's
\* length is at least min_share; with a route of length zero it never is.
C4_Floors ==
  Built =>
    \A L \in Layers : \A i \in RouteIds :
      /\ OutRowsOf(i) # {}
      /\ \A k \in OutRowsOf(i) :
           LET e == Entries(OutCodes(routes_out[k], L))
           IN /\ \A j \in Overlap(L, i) :
                   (\E p \in 1..Len(e) : Some(e[p]) = Regions(L)[j].code)
                     <=> PassesFloors(OverlapLen(L, i, j), TotalLen(i))
              /\ \A p \in 1..Len(e) :
                   \E j \in Overlap(L, i) : Some(e[p]) = Regions(L)[j].code

\* min_length_m 0 and min_share 0.10: a route of 1000 m whose overlap of
\* 50 m is rejected by the share floor alone, and a route of length zero
\* with an overlap and no membership list
C4_Witness ==
  /\ Built
  /\ args.min_length_m = 0 /\ args.min_share = 10
  /\ \E L \in Layers : \E i \in RouteIds : \E j \in Overlap(L, i) :
     \E k \in OutRowsOf(i) :
       /\ TotalLen(i) = 1000
       /\ OverlapLen(L, i, j) = 50
       /\ \A p \in 1..Len(Entries(OutCodes(routes_out[k], L))) :
            Some(Entries(OutCodes(routes_out[k], L))[p]) # Regions(L)[j].code
  /\ \E L \in Layers : \E i \in RouteIds :
       /\ TotalLen(i) = 0
       /\ Overlap(L, i) # {}
       /\ \E k \in OutRowsOf(i) : IsNull(OutCodes(routes_out[k], L))

\* ---------------------------------------------------------------- C5
\* C5: the codes string and the names string of a record are both absent
\* or both present, have as many entries, and the name at each position is
\* the name of the region whose code is at that position.
C5_ParallelLists ==
  Built =>
    \A L \in Layers : \A i \in RouteIds : \A k \in OutRowsOf(i) :
      LET c == OutCodes(routes_out[k], L)
          m == OutNames(routes_out[k], L)
      IN /\ IsNull(c) <=> IsNull(m)
         /\ Len(Entries(c)) = Len(Entries(m))
         /\ \A p \in 1..Len(Entries(c)) :
              \E j \in WithCode(L, Entries(c)[p]) :
                Regions(L)[j].name = Some(Entries(m)[p])

\* ---------------------------------------------------------------- C6
\* the regions of a layer whose geometry is invalid after the repair
Invalid(L) == {j \in 1..Len(Regions(L)) : <<L, j>> \in engine.invalid}
InvalidWarning(L) == IF L = "la" THEN "la_invalid" ELSE "rpt_invalid"

\* C6: in both layers a region that is still invalid after the repair is
\* no route's primary and no membership entry, and a warning reports how
\* many regions were excluded.
C6_InvalidExcluded ==
  Built =>
    \A L \in Layers :
      /\ \A j \in Invalid(L) : \A i \in RouteIds : \A k \in OutRowsOf(i) :
           /\ OutCode(routes_out[k], L) # Regions(L)[j].code
           /\ \A p \in 1..Len(Entries(OutCodes(routes_out[k], L))) :
                Some(Entries(OutCodes(routes_out[k], L))[p]) # Regions(L)[j].code
      /\ Invalid(L) # {} =>
           [warning |-> InvalidWarning(L), n |-> Cardinality(Invalid(L))] \in log

\* ---------------------------------------------------------------- C7
\* C7: a second run of the build on the same inputs and thresholds gives
\* the same output records as the first.
C7_SameOutputTwice ==
  (Built /\ run = 2) => routes_out = prev_out

\* ---------------------------------------------------------------- C8
\* C8: every input route gets exactly one output record, whatever it
\* matches and whatever attributes it carries: the run builds routes_out,
\* with as many rows as there are routes and one row for each route.
C8_OneRecordPerRoute ==
  /\ pc # "failed"
  /\ Built =>
       /\ Len(routes_out) = Len(routes_raw)
       /\ \A i \in RouteIds : Cardinality(OutRowsOf(i)) = 1

\* ---------------------------------------------------------------- C9
\* route i is the scenario's R: 1000 m long, 600 m in region A and 50 m in
\* region B of the LA layer, run with --min-length-m 100 --min-share 0.05
ScenarioR(i) ==
  /\ args = [min_length_m |-> 100, min_share |-> 5]
  /\ TotalLen(i) = 1000
  /\ Len(la_raw) = 2
  /\ Overlap("la", i) = {1, 2}
  /\ OverlapLen("la", i, 1) = 600
  /\ OverlapLen("la", i, 2) = 50
CodeA == Some(RegionCode("la", 1))
OnlyA == Some(Pipe \o RegionCode("la", 1) \o Pipe)

\* C9 as claimed: R's membership list is |A|, its primary is A, and B is
\* rejected by the length floor and by the share floor.
C9_BothFloorsReject ==
  Built =>
    \A i \in RouteIds : ScenarioR(i) =>
      /\ \A k \in OutRowsOf(i) :
           /\ routes_out[k].la_codes = OnlyA
           /\ routes_out[k].la_code = CodeA
      /\ ~IsTrue(LengthFloor(Some(50), args))
      /\ ~IsTrue(ShareFloor(Some(50), Some(1000), args))

\* C9 amended: R's membership list is |A| and its primary is A; B is
\* rejected by the length floor (50 < 100) alone: it meets the share floor
\* exactly (50 / 1000 = 0.05 >= 0.05).
C9_LengthFloorRejects ==
  Built =>
    \A i \in RouteIds : ScenarioR(i) =>
      /\ OutRowsOf(i) # {}
      /\ \A k \in OutRowsOf(i) :
           /\ routes_out[k].la_codes = OnlyA
           /\ routes_out[k].la_code = CodeA
      /\ ~IsTrue(LengthFloor(Some(50), args))
      /\ IsTrue(ShareFloor(Some(50), Some(1000), args))

\* the scenario has run: R's record lists only A
C9_Witness ==
  /\ Built
  /\ \E i \in RouteIds :
       /\ ScenarioR(i)
       /\ \E k \in OutRowsOf(i) :
            routes_out[k].la_codes = OnlyA /\ routes_out[k].la_code = CodeA

\* ---------------------------------------------------------------- C10
\* C10: the entries of a membership list are in non-increasing order of
\* overlap length.
C10_Descending ==
  Built =>
    \A L \in Layers : \A i \in RouteIds : \A k \in OutRowsOf(i) :
      LET e == Entries(OutCodes(routes_out[k], L))
      IN /\ \A p \in 1..Len(e) : WithCode(L, e[p]) \cap Overlap(L, i) # {}
         /\ \A p, q \in 1..Len(e) :
              p < q =>
                \A jp \in WithCode(L, e[p]) \cap Overlap(L, i) :
                \A jq \in WithCode(L, e[q]) \cap Overlap(L, i) :
                  OverlapLen(L, i, jp) >= OverlapLen(L, i, jq)

\* a membership list of two entries, the first of the longer overlap, built
\* from a region table that holds the shorter overlap's region first
C10_Witness ==
  /\ Built
  /\ \E L \in Layers : \E i \in RouteIds : \E k \in OutRowsOf(i) :
       LET e == Entries(OutCodes(routes_out[k], L))
       IN /\ Len(e) = 2
          /\ \E jp \in WithCode(L, e[1]), jq \in WithCode(L, e[2]) :
               /\ jq < jp
               /\ OverlapLen(L, i, jp) > OverlapLen(L, i, jq)

\* ---------------------------------------------------------------- C11
\* the four membership strings of an output record
MembershipStrings(row) ==
  {row.la_codes, row.la_names, row.rpt_codes, row.rpt_names}
\* t.startswith("|") and t.endswith("|")
PipeDelimited(t) == Len(t) >= 1 /\ t[1] = "|" /\ t[Len(t)] = "|"
\* text t starts and ends with '|' and has no empty segment between two
\* delimiters
WellFormed(t) ==
  /\ PipeDelimited(t)
  /\ Len(t) >= 3
  /\ \A p \in 1..(Len(t) - 1) : ~(t[p] = "|" /\ t[p + 1] = "|")

\* C11: every membership string that is present starts with '|', ends with
\* '|' and has no empty segment, whatever codes and names the region layer
\* supplies (the empty text included).
C11_NoEmptySegment ==
  Built =>
    \A k \in 1..Len(routes_out) : \A v \in MembershipStrings(routes_out[k]) :
      ~IsNull(v) => WellFormed(Val(v))

\* ---------------------------------------------------------------- C12
\* the regions of layer L whose overlap with route i passes both floors
Members(L, i) ==
  {j \in Overlap(L, i) : PassesFloors(OverlapLen(L, i, j), TotalLen(i))}
\* text t holds sub as a substring
Contains(t, sub) ==
  \E p \in 1..(Len(t) - Len(sub) + 1) : SubSeq(t, p, p + Len(sub) - 1) = sub
\* '|x|'
Piped(x) == Pipe \o x \o Pipe

\* C12: a route with no surviving overlap pair in a layer has the layer's
\* membership codes and names absent, not '||' or '|'; a membership string
\* that is present lists at least one region that survived.
C12_AbsentNotEmpty ==
  Built =>
    \A L \in Layers : \A i \in RouteIds : \A k \in OutRowsOf(i) :
      LET codes == OutCodes(routes_out[k], L)
          names == OutNames(routes_out[k], L)
      IN /\ Members(L, i) = {} => IsNull(codes) /\ IsNull(names)
         /\ ~IsNull(codes) =>
              \E j \in Members(L, i) :
                /\ ~IsNull(Regions(L)[j].code)
                /\ Contains(Val(codes), Piped(Val(Regions(L)[j].code)))
         /\ ~IsNull(names) =>
              \E j \in Members(L, i) :
                /\ ~IsNull(Regions(L)[j].name)
                /\ Contains(Val(names), Piped(Val(Regions(L)[j].name)))

\* a route overlaps a region, the floors reject the overlap, and the
\* record's membership is absent while its primary is present
C12_Witness ==
  /\ Built
  /\ \E L \in Layers : \E i \in RouteIds : \E k \in OutRowsOf(i) :
       /\ Overlap(L, i) # {}
       /\ TotalLen(i) > 0
       /\ Members(L, i) = {}
       /\ IsNull(OutCodes(routes_out[k], L))
       /\ IsNull(OutNames(routes_out[k], L))
       /\ ~IsNull(OutCode(routes_out[k], L))

\* ---------------------------------------------------------------- C13
\* C13: for every route and every region code X of the layer, the route's
\* membership codes string contains the substring '|X|' exactly when a
\* region with code X is in the route's membership list.
C13_FilterExact ==
  Built =>
    \A L \in Layers : \A i \in RouteIds : \A k \in OutRowsOf(i) :
      \A x \in 1..Len(Regions(L)) :
        LET X == Val(Regions(L)[x].code)
            codes == OutCodes(routes_out[k], L)
        IN (~IsNull(codes) /\ Contains(Val(codes), Piped(X)))
             <=> \E j \in Members(L, i) : Regions(L)[j].code = Some(X)

\* ---------------------------------------------------------------- C14
\* the assembler's own output fields
OutputFields ==
  {"la_code", "la_name", "la_codes", "la_names",
   "rpt_code", "rpt_name", "rpt_codes", "rpt_names"}
\* the value an output record carries under one of these names
Field(row, c) ==
  CASE c = "la_code" -> row.la_code [] c = "la_name" -> row.la_name
    [] c = "la_codes" -> row.la_codes [] c = "la_names" -> row.la_names
    [] c = "rpt_code" -> row.rpt_code [] c = "rpt_name" -> row.rpt_name
    [] c = "rpt_codes" -> row.rpt_codes [] c = "rpt_names" -> row.rpt_names
\* the value the pipeline computed for route i under one of these names
Computed(i, c) ==
  LET laf == LeftMatches(la_final, i, NoPrimary)[1]
      lam == LeftMatches(la_membership, i, NoMembership)[1]
      rpf == LeftMatches(rpt_final, i, NoPrimary)[1]
      rpm == LeftMatches(rpt_membership, i, NoMembership)[1]
  IN CASE c = "la_code" -> laf.code [] c = "la_name" -> laf.name
       [] c = "la_codes" -> lam.codes [] c = "la_names" -> lam.names
       [] c = "rpt_code" -> rpf.code [] c = "rpt_name" -> rpf.name
       [] c = "rpt_codes" -> rpm.codes [] c = "rpt_names" -> rpm.names
\* the input attributes that collide with an output field
Collisions == route_cols \cap OutputFields
\* the kinds of warning the build prints
WarningKinds ==
  {"la_invalid", "la_unassigned", "rpt_unassigned", "geojson_failed"}

\* C14 as claimed: the record carries the computed value under the
\* colliding name, the input attribute is dropped, and a warning is emitted
\* for the dropped attribute.
C14_DroppedWithWarning ==
  Built =>
    /\ \A i \in RouteIds : \A k \in OutRowsOf(i) : \A c \in Collisions :
         /\ c \notin DOMAIN routes_out[k].attrs
         /\ Field(routes_out[k], c) = Computed(i, c)
    /\ \A c \in Collisions :
         \E w \in log : w.warning \notin WarningKinds

\* C14 amended: the record carries the computed value under the colliding
\* name and the input attribute is dropped, without any warning: the only
\* warnings of a run are the invalid-LA count, the unassigned-route counts
\* and the failed GeoJSON write.
C14_DroppedSilently ==
  /\ Built =>
       \A i \in RouteIds : \A k \in OutRowsOf(i) : \A c \in Collisions :
         /\ c \notin DOMAIN routes_out[k].attrs
         /\ Field(routes_out[k], c) = Computed(i, c)
  /\ \A w \in log : w.warning \in WarningKinds

\* a route file with an la_codes attribute: the record's la_codes is the
\* computed membership string and nothing was logged about the attribute
C14_Witness ==
  /\ Built
  /\ "la_codes" \in Collisions
  /\ \E i \in RouteIds : \E k \in OutRowsOf(i) :
       /\ routes_out[k].la_codes = Some(Piped(RegionCode("la", 1)))
       /\ DOMAIN routes_out[k].attrs = {"operatorCode"}
  /\ \A w \in log : w.warning = "rpt_unassigned"

\* ---------------------------------------------------------------- C17
\* C17: the primary code and the primary name of a record belong to the
\* same region: some overlap of the route has exactly that code and name.
C17_CodeAndNameOfOneRegion ==
  Built =>
    \A L \in Layers : \A i \in RouteIds : \A k \in OutRowsOf(i) :
      ~IsNull(OutCode(routes_out[k], L)) =>
        \E j \in Overlap(L, i) :
          /\ Regions(L)[j].code = OutCode(routes_out[k], L)
          /\ Regions(L)[j].name = OutName(routes_out[k], L)

\* ---------------------------------------------------------------- C18
\* the regions that attain the route's maximum overlap length
Longest(L, i) ==
  {j \in Overlap(L, i) : OverlapLen(L, i, j) = MaxOverlap(L, i)}

\* C18: for all thresholds, the first entry of a non-empty membership list
\* has the route's maximum overlap length, and equals the primary code
\* when a single region attains the maximum; the primary is that of the
\* Overlap set whatever the thresholds, also when the membership is absent.
C18_FirstEntryIsLongest ==
  Built =>
    \A L \in Layers : \A i \in RouteIds : \A k \in OutRowsOf(i) :
      LET e == Entries(OutCodes(routes_out[k], L))
      IN /\ e # <<>> =>
              /\ \E j \in Longest(L, i) : Regions(L)[j].code = Some(e[1])
              /\ Cardinality(Longest(L, i)) = 1 =>
                   Some(e[1]) = OutCode(routes_out[k], L)
         /\ Overlap(L, i) # {} =>
              \E j \in Longest(L, i) :
                Regions(L)[j].code = OutCode(routes_out[k], L)

\* under both floors a route with two overlaps, one of them the longest,
\* has one membership entry, and that entry is its primary code
C18_Witness ==
  /\ Built
  /\ args.min_length_m > 0 /\ args.min_share > 0
  /\ \E L \in Layers : \E i \in RouteIds : \E k \in OutRowsOf(i) :
       /\ Cardinality(Overlap(L, i)) = 2
       /\ Cardinality(Longest(L, i)) = 1
       /\ Len(Entries(OutCodes(routes_out[k], L))) = 1
       /\ Some(Entries(OutCodes(routes_out[k], L))[1]) = OutCode(routes_out[k], L)

\* ---------------------------------------------------------------- C15
\* C15: with --resume, an output file that exists before the run is left
\* unchanged by the run.
C15_ResumeKeepsExisting ==
  opts.resume =>
    \A f \in FileNames : ~IsNull(files_before[f]) => files[f] = files_before[f]

\* ---------------------------------------------------------------- C16
GeoJsonFailed == [warning |-> "geojson_failed", n |-> 0] \in log
\* C16: after routes.parquet was written and the GeoJSON write raised, the
\* run does not raise, and the tiles are not built from a GeoJSON file
\* that this run did not write.
C16_GeoJsonFailureHarmless ==
  GeoJsonFailed =>
    /\ files["routes.parquet"] = Some(New)
    /\ pc # "raised"
    /\ pc \in {"pmtiles", "complete", "done"} /\ ~opts.skip_tiles =>
         files["routes.mbtiles"] = Some(<<"tiles">> \o New)

\* ---------------------------------------------------------------- C19
\* path p lies inside the directory root
Inside(p, root) == Len(p) >= Len(root) /\ SubSeq(p, 1, Len(root)) = root

\* C19: for every request path, translate_path returns a path inside
\* data_dir when the normalized path is /data or starts with /data/, and
\* inside public_dir otherwise; a path that would escape its root is
\* answered with data_dir or public_dir/index.html.
C19_InsideItsRoot ==
  ~IsNull(response) =>
    LET parsed == Parsed(Val(request))
        root == IF IsData(parsed) THEN data_dir ELSE public_dir
        rel == IF IsData(parsed) THEN SubSeq(parsed, 3, Len(parsed)) ELSE parsed
        candidate == resolve(root, Parts(lstrip(rel)))
    IN /\ Inside(Val(response), root)
       /\ ~Inside(candidate, root) =>
            Val(response) = IF IsData(parsed) THEN data_dir
                            ELSE Append(public_dir, <<"index.html">>)

\* a request that starts with ../ would leave public_dir and is answered
\* with public_dir/index.html
C19_Witness ==
  /\ ~IsNull(response)
  /\ ~IsData(Parsed(Val(request)))
  /\ StartsWith(Val(request), <<".", ".", "/">>)
  /\ ~Inside(resolve(public_dir, Parts(lstrip(Parsed(Val(request))))), public_dir)
  /\ Val(response) = Append(public_dir, <<"index.html">>)

====
